---- MODULE Spec2Model ----
(***************************************************************************)
(* Planner Pal backend: the deadline extraction engine (extractor.py) and  *)
(* the in-memory event store behind the REST handlers (models.py,          *)
(* routes.py).                                                             *)
(*                                                                         *)
(* Texts are TLA+ strings, indexed from 1; a "character" is a string of    *)
(* length 1.  A regular expression is modelled by the positions it         *)
(* consumes: an operator for a pattern element takes the position where    *)
(* the element starts and gives the position after it, or 0 when it does   *)
(* not match, and 0 goes through every later element unchanged.            *)
(***************************************************************************)
EXTENDS Integers, Sequences, FiniteSets, TLC

VARIABLES
    \* ---- one run of extract_deadlines_from_text (extractor.py) ----
    text,        \* the argument `text`
    cleaned,     \* the local `cleaned`
    pos,         \* where DATE_RE.finditer resumes its scan of `cleaned`
    date_match,  \* the local `date_match`, as [start, stop)
    date_base,   \* the local `date_base`
    title_raw,   \* the local `title_raw`
    times,       \* the locals start_iso, end_iso and all_day
    results,     \* the local `results`
    seen,        \* the local `seen`
    pc,          \* where the run is
    \* ---- one call of guess_event_type (extractor.py) ----
    cls_title,   \* the argument `title`
    cls_type,    \* the value returned
    cls_pc,      \* "call" before the call, "returned" after it
    \* ---- the event store and its handlers (models.py, routes.py) ----
    heap,           \* the event dicts created so far, in creation order
    models_events,  \* the list named models.events, as indices into heap
    routes_events,  \* the list named routes.events, as indices into heap
    same_list,      \* routes.events and models.events name one list object
    next_event_id,  \* the counter named routes.next_event_id
    response,       \* the response to the latest request
    deleted_ids,    \* history: the ids whose delete request was answered 200
    \* ---- creating requests handled by concurrent threads (routes.py) ----
    threads         \* per thread: its handler, its position and its locals

ext_vars == <<text, cleaned, pos, date_match, date_base, title_raw, times,
              results, seen, pc>>
cls_vars == <<cls_title, cls_type, cls_pc>>
store_vars == <<heap, models_events, routes_events, same_list, next_event_id,
                response, deleted_ids>>
vars == <<ext_vars, cls_vars, store_vars, threads>>

----------------------------------------------------------------------------
(* Characters and Python's string primitives.                              *)

Min(S) == CHOOSE x \in S : \A y \in S : x <= y
Min2(a, b) == IF a <= b THEN a ELSE b

\* s[i-1] of Python, "" outside the string
Ch(s, i) == IF i >= 1 /\ i <= Len(s) THEN SubSeq(s, i, i) ELSE ""

\* s[a-1:b] of Python for the 1-based positions a..b, clamped like a slice
Sub(s, a, b) ==
    IF a > b \/ a > Len(s) \/ b < 1 THEN ""
    ELSE SubSeq(s, IF a < 1 THEN 1 ELSE a, IF b > Len(s) THEN Len(s) ELSE b)

UpperChars == "ABCDEFGHIJKLMNOPQRSTUVWXYZ"
LowerChars == "abcdefghijklmnopqrstuvwxyz"
DigitChars == "0123456789"

UpperSet == {"A", "B", "C", "D", "E", "F", "G", "H", "I", "J", "K", "L", "M",
             "N", "O", "P", "Q", "R", "S", "T", "U", "V", "W", "X", "Y", "Z"}

\* regex classes \s, \d, \w on the characters the model uses
IsSpace(c) == c \in {" ", "\t", "\n"}
IsDigit(c) == c \in {"0", "1", "2", "3", "4", "5", "6", "7", "8", "9"}
IsWord(c) ==
    \/ c \in UpperSet \/ IsDigit(c) \/ c = "_"
    \/ \E i \in 1..Len(LowerChars) : Ch(LowerChars, i) = c

\* "".join(parts[a..b]), by halves
RECURSIVE JoinRange(_, _, _)
JoinRange(parts, a, b) ==
    IF a > b THEN ""
    ELSE IF a = b THEN parts[a]
    ELSE JoinRange(parts, a, (a + b) \div 2) \o JoinRange(parts, ((a + b) \div 2) + 1, b)
Concat(parts) == JoinRange(parts, 1, Len(parts))

\* str.lower()
LowerChar(c) ==
    IF c \in UpperSet
    THEN Ch(LowerChars, CHOOSE i \in 1..Len(UpperChars) : Ch(UpperChars, i) = c)
    ELSE c
lower(s) == Concat([i \in 1..Len(s) |-> LowerChar(Ch(s, i))])

\* str.strip(chars): the slice from the first to the last position in `keep`,
\* the positions whose character is not stripped
StripTo(s, keep) ==
    IF keep = {} THEN ""
    ELSE Sub(s, Min(keep), CHOOSE x \in keep : \A y \in keep : x >= y)
StripChars(s, set) == StripTo(s, {i \in 1..Len(s) : Ch(s, i) \notin set})
strip(s) == StripChars(s, {" ", "\t", "\n"})

\* int(s) for a string of digits
RECURSIVE NumberFrom(_, _, _)
NumberFrom(s, i, acc) ==
    IF i > Len(s) THEN acc
    ELSE NumberFrom(s, i + 1, 10 * acc + (CHOOSE d \in 0..9 : Ch(DigitChars, d + 1) = Ch(s, i)))
int(s) == NumberFrom(s, 1, 0)

\* the first position at or after `from` that is in the set `at`, or 0
FirstFrom(at, from) ==
    IF \E i \in at : i >= from THEN Min({i \in at : i >= from}) ELSE 0

\* the first positive entry of a sequence of positions, or 0: the first
\* alternative of a regex alternation that leads to a match
FirstPositive(ends) ==
    IF \E n \in DOMAIN ends : ends[n] > 0
    THEN ends[Min({n \in DOMAIN ends : ends[n] > 0})]
    ELSE 0

----------------------------------------------------------------------------
(* Regex elements as position transformers.                                *)

\* \b at the gap before position i (1..Len(s)+1)
WordBoundary(s, i) == IsWord(Ch(s, i - 1)) # IsWord(Ch(s, i))
\* \b after a match that ended before position e
BoundaryAt(s, e) == IF e > 0 /\ WordBoundary(s, e) THEN e ELSE 0

\* \s* and \d* from i: the first position that is no whitespace, no digit
RECURSIVE SkipSpaces(_, _)
SkipSpaces(s, i) ==
    IF IsSpace(Ch(s, i)) THEN SkipSpaces(s, i + 1) ELSE i
RECURSIVE SkipDigits(_, _)
SkipDigits(s, i) ==
    IF IsDigit(Ch(s, i)) THEN SkipDigits(s, i + 1) ELSE i

\* \s* after a match that ended before p
Spaces0(s, p) == IF p = 0 THEN 0 ELSE SkipSpaces(s, p)
\* \s+
Spaces1(s, p) == IF IsSpace(Ch(s, p)) THEN SkipSpaces(s, p) ELSE 0
\* \s?
OptSpace(s, p) == IF IsSpace(Ch(s, p)) THEN p + 1 ELSE p
\* \d+
Digits1(s, p) == IF IsDigit(Ch(s, p)) THEN SkipDigits(s, p) ELSE 0
\* \d{1,2}: two digits when there are two (with one digit fewer the next
\* pattern element would meet a digit, and none of them starts with one)
Digits12(s, p) ==
    IF IsDigit(Ch(s, p)) THEN (IF IsDigit(Ch(s, p + 1)) THEN p + 2 ELSE p + 1) ELSE 0
\* \d{2} and \d{4}
Digits2(s, p) == IF IsDigit(Ch(s, p)) /\ IsDigit(Ch(s, p + 1)) THEN p + 2 ELSE 0
Digits4(s, p) == IF \A d \in 0..3 : IsDigit(Ch(s, p + d)) THEN p + 4 ELSE 0
\* a literal, and an optional one-character literal
Lit(s, p, w) == IF p > 0 /\ Sub(s, p, p + Len(w) - 1) = w THEN p + Len(w) ELSE 0
OptLit(s, p, c) == IF Ch(s, p) = c THEN p + 1 ELSE p

\* re.sub and re.split walk the leftmost non-overlapping matches; `ends`
\* gives for each position of s the position after the match starting
\* there, or 0.  NextHit is the start of the first match at or after `from`.
NextHit(ends, from) == FirstFrom({k \in DOMAIN ends : ends[k] > 0}, from)

\* re.sub: s from `from` on, each match replaced by `by`; i = NextHit(ends, from)
RECURSIVE SubFrom(_, _, _, _, _)
SubFrom(s, ends, from, i, by) ==
    IF i = 0 THEN Sub(s, from, Len(s))
    ELSE Sub(s, from, i - 1) \o by \o SubFrom(s, ends, ends[i], NextHit(ends, ends[i]), by)
re_sub(s, ends, by) == SubFrom(s, ends, 1, NextHit(ends, 1), by)

\* re.split(...)[-1]: the text after the last match; i = NextHit(ends, from)
RECURSIVE LastPieceFrom(_, _, _, _)
LastPieceFrom(s, ends, from, i) ==
    IF i = 0 THEN Sub(s, from, Len(s))
    ELSE LastPieceFrom(s, ends, ends[i], NextHit(ends, ends[i]))
re_split_last(s, ends) == LastPieceFrom(s, ends, 1, NextHit(ends, 1))

\* re.split for one-character separators at the positions `seps`
RECURSIVE SplitFrom(_, _, _, _)
SplitFrom(s, seps, from, i) ==
    IF i = 0 THEN << Sub(s, from, Len(s)) >>
    ELSE << Sub(s, from, i - 1) >> \o SplitFrom(s, seps, i + 1, FirstFrom(seps, i + 1))
re_split_chars(s, seps) == SplitFrom(s, seps, 1, FirstFrom(seps, 1))

\* re.sub(r"\s+", " ", s): a run of whitespace leaves one space, at its start
CollapseSpaces(s) ==
    Concat([i \in 1..Len(s) |->
              IF ~IsSpace(Ch(s, i)) THEN Ch(s, i)
              ELSE IF IsSpace(Ch(s, i - 1)) THEN "" ELSE " "])

----------------------------------------------------------------------------
(* clean_text.  The model's texts are ASCII; three ASCII characters stand  *)
(* for the non-ASCII code points that clean_text treats specially.         *)

EN_DASH == "~"     \* stands for U+2013
EM_DASH == "#"     \* stands for U+2014
EMOJI   == "^"     \* stands for a code point in U+2600-27BF or U+1F300-1FAFF

\* every character of `set` replaced by `by`
ReplaceChars(s, set, by) ==
    Concat([i \in 1..Len(s) |-> IF Ch(s, i) \in set THEN by ELSE Ch(s, i)])

clean_text(raw) ==
    strip(CollapseSpaces(ReplaceChars(ReplaceChars(raw, {EN_DASH, EM_DASH}, "-"),
                                      {EMOJI}, " ")))

----------------------------------------------------------------------------
(* IGNORE_SECTIONS_RE.sub(" ", cleaned).  IGNORECASE: the patterns are in  *)
(* lower case and are matched against L = lower(s), which has s's          *)
(* positions.                                                              *)

SectionHeadings ==
    <<"course description", "learning outcomes", "late policy",
      "office hours", "resources", "academic integrity">>

\* \b heading \b at i
HeadingEnd(s, L, i, h) ==
    IF WordBoundary(s, i) THEN BoundaryAt(s, Lit(L, i, h)) ELSE 0
IgnoreMatchEnd(s, L, i) ==
    FirstPositive([n \in DOMAIN SectionHeadings |->
                      HeadingEnd(s, L, i, SectionHeadings[n])])
IgnoreEnds(s, L) == [k \in 1..Len(s) |-> IgnoreMatchEnd(s, L, k)]
IGNORE_SECTIONS_sub(s) == re_sub(s, IgnoreEnds(s, lower(s)), " ")

\* lines 95-97
clean_input(t) == IGNORE_SECTIONS_sub(clean_text(t))

----------------------------------------------------------------------------
(* DATE_RE = MONTH_RE \s+ DAY_RE ,? \s+ YEAR_RE, IGNORECASE, on L =        *)
(* lower(cleaned).                                                         *)

\* MONTH_RE: the alternatives in the order the regex tries them (an optional
\* group is greedy: the long form first), each with its month number
MonthForms ==
    << [form |-> "january",   month |-> 1],  [form |-> "jan",  month |-> 1],
       [form |-> "february",  month |-> 2],  [form |-> "feb",  month |-> 2],
       [form |-> "march",     month |-> 3],  [form |-> "mar",  month |-> 3],
       [form |-> "april",     month |-> 4],  [form |-> "apr",  month |-> 4],
       [form |-> "may",       month |-> 5],
       [form |-> "june",      month |-> 6],  [form |-> "jun",  month |-> 6],
       [form |-> "july",      month |-> 7],  [form |-> "jul",  month |-> 7],
       [form |-> "august",    month |-> 8],  [form |-> "aug",  month |-> 8],
       [form |-> "september", month |-> 9],  [form |-> "sept", month |-> 9],
       [form |-> "sep",       month |-> 9],
       [form |-> "october",   month |-> 10], [form |-> "oct",  month |-> 10],
       [form |-> "november",  month |-> 11], [form |-> "nov",  month |-> 11],
       [form |-> "december",  month |-> 12], [form |-> "dec",  month |-> 12] >>

\* (?:st|nd|rd|th)? after the day's digits
OptDaySuffix(L, p) ==
    IF p > 0 /\ Sub(L, p, p + 1) \in {"st", "nd", "rd", "th"} THEN p + 2 ELSE p

\* \s+ DAY_RE ,? \s+ from position j, just after the month: where the year starts
YearStart(L, j) ==
    Spaces1(L, OptLit(L, OptDaySuffix(L, Digits12(L, Spaces1(L, j))), ","))

\* DATE_RE at i with the month alternative `form`: the position after, or 0
DateEndWith(L, i, form) == Digits4(L, YearStart(L, Lit(L, i, form)))

\* the position after the match of DATE_RE at i, or 0
DateMatchEnd(L, i) ==
    FirstPositive([n \in DOMAIN MonthForms |-> DateEndWith(L, i, MonthForms[n].form)])

\* DATE_RE.finditer: the first match at or after position `from`, as
\* [start, stop) in 1-based positions; start = 0 when the iterator is exhausted
Earliest(ms) ==
    IF \A m \in ms : m.stop = 0 THEN [start |-> 0, stop |-> 0]
    ELSE CHOOSE m \in ms : m.stop > 0 /\ \A o \in ms : o.stop > 0 => m.start <= o.start
FindDate(L, from) ==
    Earliest({[start |-> k, stop |-> DateMatchEnd(L, k)] : k \in from..Len(L)})

----------------------------------------------------------------------------
(* dateutil's parser.parse on the two shapes the extractor hands it: a     *)
(* DATE_RE match, and a DATE_RE match followed by " " and a TIME_RE match. *)

DaysInMonth(y, m) ==
    IF m = 2 THEN (IF (y % 4 = 0 /\ y % 100 # 0) \/ y % 400 = 0 THEN 29 ELSE 28)
    ELSE IF m \in {4, 6, 9, 11} THEN 30 ELSE 31

\* datetime(y, m, d): ok = FALSE stands for the ValueError of a year 0 or a
\* day the month does not have, which parser.parse lets through
DateOf(y, m, d) ==
    [ok |-> y >= 1 /\ d >= 1 /\ d <= DaysInMonth(y, m),
     year |-> y, month |-> m, day |-> d, hour |-> 0, minute |-> 0]

\* the fields of a DATE_RE match L whose month alternative is f
DigitsAt(L, k, n) == int(Sub(L, k, k + n - 1))
DateFields(L, f) ==
    DateOf(DigitsAt(L, YearStart(L, 1 + Len(f.form)), 4), f.month,
           DigitsAt(L, Spaces1(L, 1 + Len(f.form)),
                    IF IsDigit(Ch(L, Spaces1(L, 1 + Len(f.form)) + 1)) THEN 2 ELSE 1))
MatchedForm(L, forms) ==
    forms[Min({n \in DOMAIN forms : DateEndWith(L, 1, forms[n].form) > 0})]

\* parser.parse(date_text) for a match of DATE_RE
parse_date(date_text) ==
    DateFields(lower(date_text), MatchedForm(lower(date_text), MonthForms))

\* the reading of a 12-hour clock: ok = FALSE stands for the ValueError of
\* an hour above 12 beside AM/PM or a minute above 59
ClockOf(d, h, mi, pm) ==
    [ok |-> d.ok /\ h <= 12 /\ mi <= 59,
     year |-> d.year, month |-> d.month, day |-> d.day,
     hour |-> IF pm /\ h < 12 THEN h + 12 ELSE IF ~pm /\ h = 12 THEN 0 ELSE h,
     minute |-> mi]
\* T is a TIME_RE match in lower case, c the position after its hour
ClockAt(d, T, c) ==
    ClockOf(d, int(Sub(T, 1, c - 1)), int(Sub(T, c + 1, c + 2)),
            Sub(T, Len(T) - 1, Len(T)) = "pm")

\* parser.parse(f"{date_text} {time_text}"), where date_text parsed as d
parse_date_time(d, time_text) ==
    ClockAt(d, lower(time_text), Digits12(lower(time_text), 1))

\* datetime.isoformat() of a value without seconds or microseconds
Pad2(n) == Ch(DigitChars, ((n \div 10) % 10) + 1) \o Ch(DigitChars, (n % 10) + 1)
isoformat(dt) ==
    Pad2(dt.year \div 100) \o Pad2(dt.year % 100) \o "-" \o Pad2(dt.month) \o "-"
    \o Pad2(dt.day) \o "T" \o Pad2(dt.hour) \o ":" \o Pad2(dt.minute) \o ":00"

----------------------------------------------------------------------------
(* TIME_RE = \d{1,2}:\d{2}\s?(?:AM|PM) and RANGE_RE =                      *)
(* TIME_RE \s* [dash] \s* TIME_RE, IGNORECASE, on lower case text.        *)

AmPm(L, a) == IF a > 0 /\ Sub(L, a, a + 1) \in {"am", "pm"} THEN a + 2 ELSE 0

\* the position after the match of TIME_RE at i, or 0
TimeMatchEnd(L, i) == AmPm(L, OptSpace(L, Digits2(L, Lit(L, Digits12(L, i), ":"))))

Dash(L, p) == IF Ch(L, p) \in {"-", EN_DASH, EM_DASH} THEN p + 1 ELSE 0

\* RANGE_RE at i: the position after its dash, and after the whole match
RangeDashEnd(L, i) == Dash(L, Spaces0(L, TimeMatchEnd(L, i)))
RangeMatchEnd(L, i) == TimeMatchEnd(L, Spaces0(L, RangeDashEnd(L, i)))

\* SINGLE_TIME_RE.search / RANGE_RE.search: where the first match starts, or 0
SearchTime(L) == FirstFrom({k \in 1..Len(L) : TimeMatchEnd(L, k) > 0}, 1)
SearchRange(L) == FirstFrom({k \in 1..Len(L) : RangeMatchEnd(L, k) > 0}, 1)

----------------------------------------------------------------------------
(* guess_event_type: re.search of each pattern in title.lower(), in order. *)

\* re.search(r"\bw\b", L)
HasWholeWord(L, w) ==
    \E i \in 1..Len(L) : WordBoundary(L, i) /\ BoundaryAt(L, Lit(L, i, w)) > 0

\* re.search(r"\bproject|presentation|report\b", L): the alternation binds
\* weaker than \b, so the first \b belongs to "project" alone and the last
\* to "report" alone
ProjectPattern(L) ==
    \E i \in 1..Len(L) :
        \/ WordBoundary(L, i) /\ Lit(L, i, "project") > 0
        \/ Lit(L, i, "presentation") > 0
        \/ BoundaryAt(L, Lit(L, i, "report")) > 0

TypeOfLower(title_lower) ==
    IF HasWholeWord(title_lower, "midterm") THEN "Midterm"
    ELSE IF \E w \in {"final", "exam", "test"} : HasWholeWord(title_lower, w)
         THEN "Exam"
    ELSE IF HasWholeWord(title_lower, "quiz") THEN "Quiz"
    ELSE IF HasWholeWord(title_lower, "lab") THEN "Lab"
    ELSE IF \E w \in {"assignment", "hw", "homework"} : HasWholeWord(title_lower, w)
         THEN "Assignment"
    ELSE IF ProjectPattern(title_lower) THEN "Project"
    ELSE "Other"

guess_event_type(title) == TypeOfLower(lower(title))

----------------------------------------------------------------------------
(* The body of the loop over DATE_RE.finditer(cleaned), lines 103-194, for *)
(* the match m = [start, stop) in cl = cleaned.                            *)

WINDOW == 120

\* lines 104, 114-116, 119, 139
date_text_of(cl, m) == Sub(cl, m.start, m.stop - 1)
start_idx(m) == IF m.start - WINDOW > 1 THEN m.start - WINDOW ELSE 1
end_idx(cl, m) == Min2(Len(cl), m.stop - 1 + WINDOW)
snippet_of(cl, m) == strip(Sub(cl, start_idx(m), end_idx(cl, m)))
before_text_of(cl, m) == strip(Sub(cl, start_idx(m), m.start - 1))
after_text_of(cl, m) == Sub(cl, m.stop, end_idx(cl, m))

\* \(\s*\d+%\s*\) at i
ParenPercentEnd(s, i) ==
    Lit(s, Spaces0(s, Lit(s, Digits1(s, Spaces0(s, Lit(s, i, "("))), "%")), ")")
\* [.;|]\s*|\(\s*\d+%\s*\) at i
DelimiterEnd(s, i) ==
    IF Ch(s, i) \in {".", ";", "|"} THEN SkipSpaces(s, i + 1)
    ELSE ParenPercentEnd(s, i)
\* line 122-123: segments[-1]
LastSegment(s) == re_split_last(s, [k \in 1..Len(s) |-> DelimiterEnd(s, k)])

\* \b\d+%\b at i.  The closing \b sits between "%" and the next character,
\* so it asks for a word character there.
PercentEnd(s, i) ==
    IF WordBoundary(s, i) THEN BoundaryAt(s, Lit(s, Digits1(s, i), "%")) ELSE 0
\* line 126
PercentSub(s) == re_sub(s, [k \in 1..Len(s) |-> PercentEnd(s, k)], "")

\* Date\s*/?\s*Deadline at i
DateDeadlineEnd(L, i) ==
    Lit(L, Spaces0(L, OptLit(L, Spaces0(L, Lit(L, i, "date")), "/")), "deadline")
\* \b(Component|Weight|Date\s*/?\s*Deadline|Important Dates)\b at i: the
\* first alternative after which there is a \b
BoilerplateEnd(s, L, i) ==
    IF WordBoundary(s, i)
    THEN FirstPositive(<< BoundaryAt(s, Lit(L, i, "component")),
                          BoundaryAt(s, Lit(L, i, "weight")),
                          BoundaryAt(s, DateDeadlineEnd(L, i)),
                          BoundaryAt(s, Lit(L, i, "important dates")) >>)
    ELSE 0
BoilerplateEnds(s, L) == [k \in 1..Len(s) |-> BoilerplateEnd(s, L, k)]
\* lines 127-132
BoilerplateSub(s) == re_sub(s, BoilerplateEnds(s, lower(s)), "")

\* lines 134-136
DefaultTitle(t) == IF t = "" THEN "Assignment" ELSE t

\* lines 122-136: title_raw from before_text
derive_title_raw(before_text) ==
    DefaultTitle(strip(BoilerplateSub(strip(PercentSub(strip(LastSegment(before_text)))))))

\* lines 141, 144-163: start_iso, end_iso and all_day.  raised = TRUE stands
\* for the exception parser.parse raises at line 148, 149 or 155, which
\* nothing in the function catches.
Raised == [raised |-> TRUE, start |-> "", end |-> "", allDay |-> FALSE]
RangeTimes(start_time, end_time) ==
    IF start_time.ok /\ end_time.ok
    THEN [raised |-> FALSE, start |-> isoformat(start_time),
          end |-> isoformat(end_time), allDay |-> FALSE]
    ELSE Raised
SingleTime(start_time) ==
    IF start_time.ok
    THEN [raised |-> FALSE, start |-> isoformat(start_time),
          end |-> isoformat(start_time), allDay |-> FALSE]
    ELSE Raised
AllDay(date_only) ==
    [raised |-> FALSE, start |-> isoformat(date_only),
     end |-> isoformat(date_only), allDay |-> TRUE]

\* r and t are where RANGE_RE and SINGLE_TIME_RE match in A = lower(after_text);
\* the range's text is split at its dash, which no TIME_RE match contains
TimesAt(d, after_text, A, r, t) ==
    IF r > 0 THEN
        RangeTimes(
            parse_date_time(d, strip(Sub(after_text, r, RangeDashEnd(A, r) - 2))),
            parse_date_time(d, strip(Sub(after_text, RangeDashEnd(A, r),
                                         RangeMatchEnd(A, r) - 1))))
    ELSE IF t > 0 THEN
        SingleTime(parse_date_time(d, Sub(after_text, t, TimeMatchEnd(A, t) - 1)))
    ELSE AllDay(d)
TimesIn(d, after_text, A) == TimesAt(d, after_text, A, SearchRange(A), SearchTime(A))
detect_times(d, after_text) == TimesIn(d, after_text, lower(after_text))

\* lines 166-173: event_titles
LongEnough(t) == Len(strip(t)) > 2
TitlesOf(kept, title) ==
    IF Len(kept) = 0 THEN << title >>
    ELSE [n \in 1..Len(kept) |-> StripChars(kept[n], {" ", "-", ":"})]
event_titles_of(title) ==
    TitlesOf(SelectSeq(re_split_chars(title, {k \in 1..Len(title) :
                                                 Ch(title, k) \in {",", ";"}}),
                       LongEnough),
             title)

\* lines 177-178, 186-193: the event of one title
MakeEvent(title, tm, snippet) ==
    [title |-> title, type |-> guess_event_type(title), start |-> tm.start,
     end |-> tm.end, allDay |-> tm.allDay, extracted_from |-> snippet]
MakeEvents(titles, tm, snippet) ==
    [n \in 1..Len(titles) |-> MakeEvent(CollapseSpaces(titles[n]), tm, snippet)]

\* event_key had it kept the whole start string: the variant the
\* deduplication property must tell from line 181
event_key_whole_start(title, start_iso) == lower(title) \o "_" \o start_iso
\* line 181
event_key(title, start_iso) == lower(title) \o "_" \o Sub(start_iso, 1, 10)

\* lines 183-194: the event is appended unless its key was seen
EmitOne(acc, e, k) ==
    IF k \in acc.seen THEN acc
    ELSE [results |-> Append(acc.results, e), seen |-> acc.seen \cup {k}]
\* lines 176-194
RECURSIVE emit_events(_, _, _)
emit_events(events, n, acc) ==
    IF n > Len(events) THEN acc
    ELSE emit_events(events, n + 1,
                     EmitOne(acc, events[n], event_key(events[n].title, events[n].start)))

----------------------------------------------------------------------------
(* extract_deadlines_from_text as a value, [raised, results]: what a       *)
(* caller gets.                                                            *)

\* the loop body after the date parsed (d) and the times were read (tm)
WithTimes(cl, m, tm, acc) ==
    IF tm.raised THEN [raised |-> TRUE, acc |-> acc]
    ELSE [raised |-> FALSE,
          acc |-> emit_events(MakeEvents(event_titles_of(
                                             derive_title_raw(before_text_of(cl, m))),
                                         tm, snippet_of(cl, m)),
                              1, acc)]
WithDate(cl, m, d, acc) ==
    IF ~d.ok THEN [raised |-> FALSE, acc |-> acc]
    ELSE WithTimes(cl, m, detect_times(d, after_text_of(cl, m)), acc)
loop_body(cl, m, acc) == WithDate(cl, m, parse_date(date_text_of(cl, m)), acc)

RECURSIVE scan_dates(_, _, _, _)
AfterBody(cl, L, m, step) ==
    IF step.raised THEN [raised |-> TRUE, results |-> << >>]
    ELSE scan_dates(cl, L, FindDate(L, m.stop), step.acc)
scan_dates(cl, L, m, acc) ==
    IF m.start = 0 THEN [raised |-> FALSE, results |-> acc.results]
    ELSE AfterBody(cl, L, m, loop_body(cl, m, acc))
ExtractCleaned(cl) ==
    scan_dates(cl, lower(cl), FindDate(lower(cl), 1), [results |-> << >>, seen |-> {}])
extract_deadlines_from_text(t) == ExtractCleaned(clean_input(t))

----------------------------------------------------------------------------
(* The texts handed to extract_deadlines_from_text: up to MaxPhrases       *)
(* phrases, separated by one space.                                        *)

MaxPhrases == 3

Phrases ==
    << "Quiz 1: March 5, 2024",
       ". quiz  1 - Mar 5th, 2024",
       "7:00 PM",
       "9:00 PM - 7:00 PM",
       "at 7:00pm ~ 9:30 pm",
       "25:00 PM",
       "Feb 31, 2024",
       ". --- March 10, 2024" >>

\* sep.join(table[i] for i in ps[n-1:])
RECURSIVE JoinFrom(_, _, _, _)
JoinFrom(table, ps, n, sep) ==
    IF n > Len(ps) THEN ""
    ELSE IF n = Len(ps) THEN table[ps[n]]
    ELSE table[ps[n]] \o sep \o JoinFrom(table, ps, n + 1, sep)

Texts ==
    UNION {{JoinFrom(Phrases, ps, 1, " ") : ps \in [1..k -> 1..Len(Phrases)]} : k \in 0..MaxPhrases}

----------------------------------------------------------------------------
(* One run of extract_deadlines_from_text, a step per statement group of   *)
(* the loop.                                                               *)

\* the locals before the first statement: no match, no date, no times yet
NoLocals ==
    /\ cleaned = "" /\ pos = 1 /\ date_match = [start |-> 0, stop |-> 0]
    /\ date_base = DateOf(0, 1, 0) /\ title_raw = ""
    /\ times = [raised |-> FALSE, start |-> "", end |-> "", allDay |-> FALSE]
    /\ results = << >> /\ seen = {}

\* a call with any of the texts
ExtInit == text \in Texts /\ pc = "start" /\ NoLocals
\* no call of the extractor is in progress
ExtIdle == text = "" /\ pc = "idle" /\ NoLocals

\* lines 95-100
Clean ==
    /\ pc = "start"
    /\ cleaned' = clean_input(text)
    /\ pos' = 1 /\ results' = << >> /\ seen' = {}
    /\ pc' = "scan"
    /\ UNCHANGED <<text, date_match, date_base, title_raw, times>>
    /\ UNCHANGED <<cls_vars, store_vars, threads>>

\* line 103: finditer gives its next match
NextDate ==
    /\ pc = "scan"
    /\ \E m \in {FindDate(lower(cleaned), pos)} :
          /\ m.start > 0
          /\ date_match' = m
    /\ pc' = "parse"
    /\ UNCHANGED <<text, cleaned, pos, date_base, title_raw, times, results, seen>>
    /\ UNCHANGED <<cls_vars, store_vars, threads>>

\* lines 103, 196: finditer is exhausted and the function returns results
Return ==
    /\ pc = "scan"
    /\ FindDate(lower(cleaned), pos).start = 0
    /\ pc' = "done"
    /\ UNCHANGED <<text, cleaned, pos, date_match, date_base, title_raw, times,
                   results, seen>>
    /\ UNCHANGED <<cls_vars, store_vars, threads>>

\* lines 104-108: the date parses
ParseDate ==
    /\ pc = "parse"
    /\ \E d \in {parse_date(date_text_of(cleaned, date_match))} :
          /\ d.ok
          /\ date_base' = d
    /\ pc' = "title"
    /\ UNCHANGED <<text, cleaned, pos, date_match, title_raw, times, results, seen>>
    /\ UNCHANGED <<cls_vars, store_vars, threads>>

\* the except clause had it ended the loop: the variant the skip property
\* must tell from lines 109-111
SkipDateAborts ==
    /\ pc = "parse"
    /\ ~parse_date(date_text_of(cleaned, date_match)).ok
    /\ pos' = Len(cleaned) + 1
    /\ pc' = "done"
    /\ UNCHANGED <<text, cleaned, date_match, date_base, title_raw, times, results,
                   seen>>
    /\ UNCHANGED <<cls_vars, store_vars, threads>>

\* lines 109-111: parser.parse raised; continue with the next match
SkipDate ==
    /\ pc = "parse"
    /\ ~parse_date(date_text_of(cleaned, date_match)).ok
    /\ pos' = date_match.stop
    /\ pc' = "scan"
    /\ UNCHANGED <<text, cleaned, date_match, date_base, title_raw, times, results,
                   seen>>
    /\ UNCHANGED <<cls_vars, store_vars, threads>>

\* lines 114-136
DeriveTitle ==
    /\ pc = "title"
    /\ title_raw' = derive_title_raw(before_text_of(cleaned, date_match))
    /\ pc' = "times"
    /\ UNCHANGED <<text, cleaned, pos, date_match, date_base, times, results, seen>>
    /\ UNCHANGED <<cls_vars, store_vars, threads>>

\* lines 139-163
DetectTimes ==
    /\ pc = "times"
    /\ \E tm \in {detect_times(date_base, after_text_of(cleaned, date_match))} :
          /\ ~tm.raised
          /\ times' = tm
    /\ pc' = "emit"
    /\ UNCHANGED <<text, cleaned, pos, date_match, date_base, title_raw, results, seen>>
    /\ UNCHANGED <<cls_vars, store_vars, threads>>

\* lines 148, 149, 155: parser.parse raises and nothing catches it
RaiseFromTime ==
    /\ pc = "times"
    /\ detect_times(date_base, after_text_of(cleaned, date_match)).raised
    /\ pc' = "raised"
    /\ UNCHANGED <<text, cleaned, pos, date_match, date_base, title_raw, times,
                   results, seen>>
    /\ UNCHANGED <<cls_vars, store_vars, threads>>

\* lines 166-194, and back to the for statement
EmitEvents ==
    /\ pc = "emit"
    /\ \E acc \in {emit_events(MakeEvents(event_titles_of(title_raw), times,
                                          snippet_of(cleaned, date_match)),
                               1, [results |-> results, seen |-> seen])} :
          /\ results' = acc.results
          /\ seen' = acc.seen
    /\ pos' = date_match.stop
    /\ pc' = "scan"
    /\ UNCHANGED <<text, cleaned, date_match, date_base, title_raw, times>>
    /\ UNCHANGED <<cls_vars, store_vars, threads>>



----------------------------------------------------------------------------
(* One call of guess_event_type, on titles of up to MaxWords words.        *)

MaxWords == 2

Words ==
    << "Midterm", "EXAM", "final", "test", "quiz", "Lab", "hw", "homework",
       "assignment", "project", "presentation", "report", "projector",
       "presentations", "preport", "reports", "contest" >>

Titles ==
    UNION {{JoinFrom(Words, ws, 1, " ") : ws \in [1..k -> 1..Len(Words)]} : k \in 1..MaxWords}

ClsIdle == cls_title = "" /\ cls_type = "" /\ cls_pc = "idle"

\* lines 49-74
Classify ==
    /\ cls_pc = "call"
    /\ cls_type' = guess_event_type(cls_title)
    /\ cls_pc' = "returned"
    /\ UNCHANGED <<cls_title, ext_vars, store_vars, threads>>

----------------------------------------------------------------------------
(* The event store.  An event is a Python dict, modelled as a function     *)
(* from its keys; heap holds every dict created, and a list of events is a *)
(* sequence of indices into heap, so that one dict can sit in two lists.   *)
(* routes.py imports the names events and next_event_id from models.py:    *)
(* routes.events starts as the very list models.events names, and          *)
(* routes.next_event_id as a counter of its own.  The functions of         *)
(* models.py read models.events; nothing ever rebinds that name, since     *)
(* no handler calls models.delete_event.                                   *)

MaxId == 3

\* what extract_text_from_pdf gives for the PDFs uploaded
UploadTexts ==
    { "",
      "Lab 2, HW 3: Dec 1 2024\n",
      "Exam: Mar 5, 2024 7:75 PM\n" }
\* extract_deadlines_from_text on each of them
Extracted == [t \in UploadTexts |-> extract_deadlines_from_text(t)]

\* request.files of an upload: whether it has the key 'file', the file's
\* name, whether PyPDF2 can read it, and the text of its pages
UploadRequests ==
    { [has_file |-> FALSE, filename |-> "", readable |-> FALSE, text |-> ""],
      [has_file |-> TRUE, filename |-> "", readable |-> FALSE, text |-> ""],
      [has_file |-> TRUE, filename |-> "notes.txt", readable |-> FALSE, text |-> ""],
      [has_file |-> TRUE, filename |-> "scan.pdf", readable |-> FALSE, text |-> ""] }
    \cup { [has_file |-> TRUE, filename |-> "Syllabus.PDF", readable |-> TRUE,
            text |-> t] : t \in UploadTexts }

\* request.get_json() of a create request
CreatePayloads ==
    { [title |-> "Essay", start |-> "2024-04-01T00:00:00",
       end |-> "2024-04-01T23:59:00"],
      [title |-> "Demo", start |-> "2024-04-02T10:00:00",
       end |-> "2024-04-02T11:00:00", type |-> "Project", allDay |-> FALSE,
       course |-> "CS 101"],
      [title |-> "Untimed", start |-> "2024-04-03T00:00:00"] }

\* request.get_json() of an update request
UpdatePayloads ==
    { [id |-> 9, title |-> "Renamed", start |-> "TBA"] }

\* s.endswith(suffix)
EndsWith(s, suffix) == Sub(s, Len(s) - Len(suffix) + 1, Len(s)) = suffix
\* d.get(key, default)
Get(d, key, default) == IF key \in DOMAIN d THEN d[key] ELSE default

\* routes.py lines 59-67: the upload passes validation
ValidUpload(req) ==
    req.has_file /\ req.filename # "" /\ EndsWith(lower(req.filename), ".pdf")

\* routes.py lines 83-94
PdfEvent(id, event_data) ==
    [id |-> id, title |-> event_data.title, type |-> event_data.type,
     start |-> event_data.start, end |-> event_data.end,
     allDay |-> event_data.allDay, source |-> "pdf_upload",
     extracted_from |-> event_data.extracted_from, description |-> "",
     course |-> ""]
\* routes.py lines 82-99: the dicts of one upload, ids counting up from id
PdfEvents(id, extracted_events) ==
    [n \in 1..Len(extracted_events) |-> PdfEvent(id + n - 1, extracted_events[n])]

\* routes.py lines 149-160
ManualEvent(id, data) ==
    [id |-> id, title |-> data.title, type |-> Get(data, "type", "Assignment"),
     start |-> data.start, end |-> data.end,
     allDay |-> Get(data, "allDay", TRUE), source |-> "manual",
     description |-> Get(data, "description", ""),
     course |-> Get(data, "course", ""), extracted_from |-> ""]

\* update_event without the test of line 127: the variant the id property
\* must tell from lines 126-128
ApplyUpdatesAnyKey(event, updates) ==
    [key \in DOMAIN event \cup DOMAIN updates |->
        IF key \in DOMAIN updates THEN updates[key] ELSE event[key]]
\* models.py lines 126-128
ApplyUpdates(event, updates) ==
    [key \in DOMAIN event \cup (DOMAIN updates \ {"id"}) |->
        IF key \in DOMAIN updates /\ key # "id" THEN updates[key] ELSE event[key]]

\* the ids of a list of events, in order
IdsOf(hp, evs) == [n \in 1..Len(evs) |-> hp[evs[n]].id]
\* models.py line 109, on models.events: the first dict with the id, 0 for None
get_event_by_id(hp, evs, event_id) ==
    IF \E n \in 1..Len(evs) : hp[evs[n]].id = event_id
    THEN evs[Min({n \in 1..Len(evs) : hp[evs[n]].id = event_id})]
    ELSE 0
\* routes.py line 206: [e for e in events if e['id'] != event_id]
RECURSIVE Without(_, _, _)
Without(hp, evs, event_id) ==
    IF evs = << >> THEN << >>
    ELSE IF hp[Head(evs)].id = event_id THEN Without(hp, Tail(evs), event_id)
    ELSE << Head(evs) >> \o Without(hp, Tail(evs), event_id)

\* events.append(...) through the name routes.events reaches models.events
\* while both name one list
AppendedToModels(refs) == IF same_list THEN models_events \o refs ELSE models_events

\* datetime.fromisoformat accepts s: YYYY-MM-DD, alone or followed by
\* THH:MM:SS (the shapes the stored strings of these runs have, or lack)
IsoShape(s, shape) ==
    /\ Len(s) = Len(shape)
    /\ \A i \in 1..Len(s) : IF Ch(shape, i) = "d" THEN IsDigit(Ch(s, i))
                                                  ELSE Ch(s, i) = Ch(shape, i)
fromisoformat_ok(s) == IsoShape(s, "dddd-dd-dd") \/ IsoShape(s, "dddd-dd-ddTdd:dd:dd")
\* routes.py lines 234-260 run through without an exception
Exportable(hp, evs) ==
    \A n \in 1..Len(evs) : fromisoformat_ok(hp[evs[n]].start)
                           /\ fromisoformat_ok(hp[evs[n]].end)

\* a response: the handler, the status code, the id in the URL (0: none),
\* the ids of the events in the body, and total_events (-1: none)
Response(handler, status, target, ids, total) ==
    [handler |-> handler, status |-> status, target |-> target, ids |-> ids,
     total |-> total]

\* the state after import, before any request
StoreInit ==
    /\ heap = << >> /\ models_events = << >> /\ routes_events = << >>
    /\ same_list = TRUE /\ next_event_id = 1 /\ deleted_ids = {}
    /\ response = Response("none", 0, 0, << >>, -1)

\* routes.py lines 59-67
UploadRejected ==
    /\ \E req \in UploadRequests : ~ValidUpload(req)
    /\ response' = Response("upload_pdf", 400, 0, << >>, -1)
    /\ UNCHANGED <<heap, models_events, routes_events, same_list, next_event_id,
                   deleted_ids>>
    /\ UNCHANGED <<ext_vars, cls_vars, threads>>

\* routes.py lines 69-76, 108-110: the PDF cannot be read, or the extractor
\* raises
UploadFailed ==
    /\ \E req \in UploadRequests :
          /\ ValidUpload(req)
          /\ ~req.readable \/ Extracted[req.text].raised
    /\ response' = Response("upload_pdf", 500, 0, << >>, -1)
    /\ UNCHANGED <<heap, models_events, routes_events, same_list, next_event_id,
                   deleted_ids>>
    /\ UNCHANGED <<ext_vars, cls_vars, threads>>

\* routes.py lines 69-106
UploadPdf ==
    /\ \E req \in UploadRequests :
          /\ ValidUpload(req) /\ req.readable /\ ~Extracted[req.text].raised
          /\ \E new_events \in {PdfEvents(next_event_id, Extracted[req.text].results)} :
             \E refs \in {[n \in 1..Len(new_events) |-> Len(heap) + n]} :
                /\ next_event_id + Len(new_events) - 1 <= MaxId
                /\ heap' = heap \o new_events
                /\ routes_events' = routes_events \o refs
                /\ models_events' = AppendedToModels(refs)
                /\ next_event_id' = next_event_id + Len(new_events)
                /\ response' = Response("upload_pdf", 200, 0, IdsOf(heap', refs),
                                        Len(models_events'))
    /\ UNCHANGED <<same_list, deleted_ids>>
    /\ UNCHANGED <<ext_vars, cls_vars, threads>>

\* routes.py lines 112-119
GetEvents ==
    /\ response' = Response("get_events", 200, 0, IdsOf(heap, models_events), -1)
    /\ UNCHANGED <<heap, models_events, routes_events, same_list, next_event_id,
                   deleted_ids>>
    /\ UNCHANGED <<ext_vars, cls_vars, threads>>

\* routes.py lines 139-145
CreateRejected ==
    /\ \E data \in CreatePayloads : ~({"title", "start", "end"} \subseteq DOMAIN data)
    /\ response' = Response("create_event", 400, 0, << >>, -1)
    /\ UNCHANGED <<heap, models_events, routes_events, same_list, next_event_id,
                   deleted_ids>>
    /\ UNCHANGED <<ext_vars, cls_vars, threads>>

\* routes.py lines 139-166
CreateEvent ==
    /\ next_event_id <= MaxId
    /\ \E data \in CreatePayloads :
          /\ {"title", "start", "end"} \subseteq DOMAIN data
          /\ heap' = Append(heap, ManualEvent(next_event_id, data))
    /\ routes_events' = Append(routes_events, Len(heap) + 1)
    /\ models_events' = AppendedToModels(<< Len(heap) + 1 >>)
    /\ next_event_id' = next_event_id + 1
    /\ response' = Response("create_event", 201, 0, << next_event_id >>, -1)
    /\ UNCHANGED <<same_list, deleted_ids>>
    /\ UNCHANGED <<ext_vars, cls_vars, threads>>

\* routes.py lines 179-181
UpdateNotFound ==
    /\ \E event_id \in 1..MaxId :
          /\ get_event_by_id(heap, models_events, event_id) = 0
          /\ response' = Response("update_event", 404, event_id, << >>, -1)
    /\ UNCHANGED <<heap, models_events, routes_events, same_list, next_event_id,
                   deleted_ids>>
    /\ UNCHANGED <<ext_vars, cls_vars, threads>>

\* routes.py lines 179-190 and models.py lines 122-130.  update_event finds
\* the dict the handler found, so line 192 is never reached.
UpdateEvent ==
    /\ \E event_id \in 1..MaxId, data \in UpdatePayloads :
       \E event \in {get_event_by_id(heap, models_events, event_id)} :
          /\ event # 0
          /\ heap' = [heap EXCEPT ![event] = ApplyUpdates(@, data)]
          /\ \E updated_event \in {get_event_by_id(heap', models_events, event_id)} :
                response' = Response("update_event", 200, event_id,
                                     IF updated_event = 0 THEN << >>
                                     ELSE << heap'[updated_event].id >>, -1)
    /\ UNCHANGED <<models_events, routes_events, same_list, next_event_id,
                   deleted_ids>>
    /\ UNCHANGED <<ext_vars, cls_vars, threads>>

\* routes.py lines 204-209: the comprehension builds a new list and the
\* global statement binds the name routes.events to it
DeleteEvent ==
    /\ \E event_id \in 1..MaxId :
       \E kept \in {Without(heap, routes_events, event_id)} :
          /\ Len(kept) < Len(routes_events)
          /\ routes_events' = kept
          /\ deleted_ids' = deleted_ids \cup {event_id}
          /\ response' = Response("delete_event", 200, event_id, << >>, -1)
    /\ same_list' = FALSE
    /\ UNCHANGED <<heap, models_events, next_event_id>>
    /\ UNCHANGED <<ext_vars, cls_vars, threads>>

\* routes.py lines 204-211: the name is bound to the new list here too
DeleteNotFound ==
    /\ \E event_id \in 1..MaxId :
       \E kept \in {Without(heap, routes_events, event_id)} :
          /\ Len(kept) >= Len(routes_events)
          /\ routes_events' = kept
          /\ response' = Response("delete_event", 404, event_id, << >>, -1)
    /\ same_list' = FALSE
    /\ UNCHANGED <<heap, models_events, next_event_id, deleted_ids>>
    /\ UNCHANGED <<ext_vars, cls_vars, threads>>

\* routes.py lines 223-275: one component per event of routes.events
ExportIcs ==
    /\ Exportable(heap, routes_events)
    /\ response' = Response("export_ics", 200, 0, IdsOf(heap, routes_events), -1)
    /\ UNCHANGED <<heap, models_events, routes_events, same_list, next_event_id,
                   deleted_ids>>
    /\ UNCHANGED <<ext_vars, cls_vars, threads>>

\* routes.py lines 243-244, 277-278: fromisoformat raises
ExportFailed ==
    /\ ~Exportable(heap, routes_events)
    /\ response' = Response("export_ics", 500, 0, << >>, -1)
    /\ UNCHANGED <<heap, models_events, routes_events, same_list, next_event_id,
                   deleted_ids>>
    /\ UNCHANGED <<ext_vars, cls_vars, threads>>

\* routes.py lines 280-291
HealthCheck ==
    /\ response' = Response("health_check", 200, 0, << >>, Len(models_events))
    /\ UNCHANGED <<heap, models_events, routes_events, same_list, next_event_id,
                   deleted_ids>>
    /\ UNCHANGED <<ext_vars, cls_vars, threads>>

----------------------------------------------------------------------------
(* Creating requests under the threaded server (app.py line 76: app.run    *)
(* serves each request in a thread of its own).  No handler takes a lock,  *)
(* so two handlers interleave between any two of their statements; a       *)
(* thread takes one step per access to events or next_event_id.  The       *)
(* statement next_event_id += 1 is a load of the global followed by a      *)
(* store.                                                                  *)

Threads == {"t1", "t2"}

\* a thread before the first statement of its handler
NewThread(handler) ==
    [handler |-> handler, pc |-> "call", extracted_events |-> << >>, n |-> 0,
     event |-> 0, loaded |-> 0, status |-> 0, ids |-> << >>]
\* no request is being served
ThreadsIdle == threads = [t \in Threads |-> NewThread("none")]
\* each thread has a creating request to serve
ThreadsInit ==
    threads \in [Threads -> {NewThread("create_event"), NewThread("upload_pdf")}]

At(t, handler, at) == threads[t].handler = handler /\ threads[t].pc = at
Becomes(t, th) == threads' = [threads EXCEPT ![t] = th]

\* routes.py lines 139-145
ThreadCreateRejected ==
    /\ \E t \in Threads :
          /\ At(t, "create_event", "call")
          /\ \E data \in CreatePayloads :
                ~({"title", "start", "end"} \subseteq DOMAIN data)
          /\ Becomes(t, [threads[t] EXCEPT !.pc = "done", !.status = 400])
    /\ UNCHANGED <<ext_vars, cls_vars, store_vars>>

\* routes.py lines 139-160: the dict is built with the counter's value
ThreadCreateBuild ==
    /\ \E t \in Threads :
          /\ At(t, "create_event", "call")
          /\ \E data \in CreatePayloads :
                /\ {"title", "start", "end"} \subseteq DOMAIN data
                /\ heap' = Append(heap, ManualEvent(next_event_id, data))
          /\ Becomes(t, [threads[t] EXCEPT !.pc = "append", !.event = Len(heap) + 1,
                                           !.ids = << next_event_id >>])
    /\ UNCHANGED <<models_events, routes_events, same_list, next_event_id,
                   response, deleted_ids>>
    /\ UNCHANGED <<ext_vars, cls_vars>>

\* routes.py line 163
ThreadCreateAppend ==
    /\ \E t \in Threads :
          /\ At(t, "create_event", "append")
          /\ routes_events' = Append(routes_events, threads[t].event)
          /\ models_events' = AppendedToModels(<< threads[t].event >>)
          /\ Becomes(t, [threads[t] EXCEPT !.pc = "load"])
    /\ UNCHANGED <<heap, same_list, next_event_id, response, deleted_ids>>
    /\ UNCHANGED <<ext_vars, cls_vars>>

\* routes.py line 164: next_event_id is read
ThreadCreateLoad ==
    /\ \E t \in Threads :
          /\ At(t, "create_event", "load")
          /\ Becomes(t, [threads[t] EXCEPT !.pc = "store", !.loaded = next_event_id])
    /\ UNCHANGED <<ext_vars, cls_vars, store_vars>>

\* routes.py lines 164-166: next_event_id is written; the response is 201
ThreadCreateStore ==
    /\ \E t \in Threads :
          /\ At(t, "create_event", "store")
          /\ next_event_id' = threads[t].loaded + 1
          /\ Becomes(t, [threads[t] EXCEPT !.pc = "done", !.status = 201])
    /\ UNCHANGED <<heap, models_events, routes_events, same_list, response,
                   deleted_ids>>
    /\ UNCHANGED <<ext_vars, cls_vars>>

\* routes.py lines 59-67: 400; lines 69-76, 108-110: 500
ThreadUploadRejected ==
    /\ \E t \in Threads :
          /\ At(t, "upload_pdf", "call")
          /\ \E req \in UploadRequests :
                Becomes(t, [threads[t] EXCEPT
                               !.pc = "done",
                               !.status = IF ~ValidUpload(req) THEN 400 ELSE 500])
                /\ (ValidUpload(req) => (~req.readable \/ Extracted[req.text].raised))
    /\ UNCHANGED <<ext_vars, cls_vars, store_vars>>

\* routes.py lines 59-82: the events are extracted and the loop is entered
ThreadUploadStart ==
    /\ \E t \in Threads :
          /\ At(t, "upload_pdf", "call")
          /\ \E req \in UploadRequests :
                /\ ValidUpload(req) /\ req.readable /\ ~Extracted[req.text].raised
                /\ Becomes(t, [threads[t] EXCEPT
                                  !.pc = "build", !.n = 1,
                                  !.extracted_events = Extracted[req.text].results])
    /\ UNCHANGED <<ext_vars, cls_vars, store_vars>>

\* routes.py lines 82-94: the next dict is built with the counter's value
ThreadUploadBuild ==
    /\ \E t \in Threads :
          /\ At(t, "upload_pdf", "build")
          /\ threads[t].n <= Len(threads[t].extracted_events)
          /\ heap' = Append(heap, PdfEvent(next_event_id,
                                           threads[t].extracted_events[threads[t].n]))
          /\ Becomes(t, [threads[t] EXCEPT !.pc = "append", !.event = Len(heap) + 1,
                                           !.ids = Append(@, next_event_id)])
    /\ UNCHANGED <<models_events, routes_events, same_list, next_event_id,
                   response, deleted_ids>>
    /\ UNCHANGED <<ext_vars, cls_vars>>

\* routes.py lines 97-98
ThreadUploadAppend ==
    /\ \E t \in Threads :
          /\ At(t, "upload_pdf", "append")
          /\ routes_events' = Append(routes_events, threads[t].event)
          /\ models_events' = AppendedToModels(<< threads[t].event >>)
          /\ Becomes(t, [threads[t] EXCEPT !.pc = "load"])
    /\ UNCHANGED <<heap, same_list, next_event_id, response, deleted_ids>>
    /\ UNCHANGED <<ext_vars, cls_vars>>

\* routes.py line 99: next_event_id is read
ThreadUploadLoad ==
    /\ \E t \in Threads :
          /\ At(t, "upload_pdf", "load")
          /\ Becomes(t, [threads[t] EXCEPT !.pc = "store", !.loaded = next_event_id])
    /\ UNCHANGED <<ext_vars, cls_vars, store_vars>>

\* routes.py line 99: next_event_id is written; back to the for statement
ThreadUploadStore ==
    /\ \E t \in Threads :
          /\ At(t, "upload_pdf", "store")
          /\ next_event_id' = threads[t].loaded + 1
          /\ Becomes(t, [threads[t] EXCEPT !.pc = "build", !.n = @ + 1])
    /\ UNCHANGED <<heap, models_events, routes_events, same_list, response,
                   deleted_ids>>
    /\ UNCHANGED <<ext_vars, cls_vars>>

\* routes.py lines 82, 101-106: the loop is over; the response is 200
ThreadUploadReturn ==
    /\ \E t \in Threads :
          /\ At(t, "upload_pdf", "build")
          /\ threads[t].n > Len(threads[t].extracted_events)
          /\ Becomes(t, [threads[t] EXCEPT !.pc = "done", !.status = 200])
    /\ UNCHANGED <<ext_vars, cls_vars, store_vars>>

----------------------------------------------------------------------------
(* The specifications: runs of the extractor on every text of Texts,       *)
(* calls of guess_event_type on every title of Titles, and the store under *)
(* any sequence of requests handled one at a time, and two creating        *)
(* requests handled by two threads at once.                                *)

Init == ExtInit /\ ClsIdle /\ StoreInit /\ ThreadsIdle
Next ==
    \/ Clean \/ NextDate \/ Return \/ ParseDate \/ SkipDate
    \/ DeriveTitle \/ DetectTimes \/ RaiseFromTime \/ EmitEvents
Spec == Init /\ [][Next]_vars

InitClassify ==
    /\ cls_title \in Titles /\ cls_type = "" /\ cls_pc = "call"
    /\ ExtIdle /\ StoreInit /\ ThreadsIdle
SpecClassify == InitClassify /\ [][Classify]_vars

InitStore == ExtIdle /\ ClsIdle /\ StoreInit /\ ThreadsIdle
NextStore ==
    \/ UploadRejected \/ UploadFailed \/ UploadPdf \/ GetEvents
    \/ CreateRejected \/ CreateEvent \/ UpdateNotFound \/ UpdateEvent
    \/ DeleteEvent \/ DeleteNotFound \/ ExportIcs \/ ExportFailed \/ HealthCheck
SpecStore == InitStore /\ [][NextStore]_vars


InitThreads == ExtIdle /\ ClsIdle /\ StoreInit /\ ThreadsInit
NextThreads ==
    \/ ThreadCreateRejected \/ ThreadCreateBuild \/ ThreadCreateAppend
    \/ ThreadCreateLoad \/ ThreadCreateStore
    \/ ThreadUploadRejected \/ ThreadUploadStart \/ ThreadUploadBuild
    \/ ThreadUploadAppend \/ ThreadUploadLoad \/ ThreadUploadStore
    \/ ThreadUploadReturn
SpecThreads == InitThreads /\ [][NextThreads]_vars

----------------------------------------------------------------------------
(* Properties of the extractor, under Spec.                                *)

Range(s) == {s[n] : n \in DOMAIN s}

\* the events the loop body built for the latest date that parsed
LastCandidates ==
    MakeEvents(event_titles_of(title_raw), times, snippet_of(cleaned, date_match))

\* C1 - Deduplication: the results of a run never hold two events whose
\* titles are equal in lower case and whose start strings agree on their
\* first 10 characters, whatever their times of day.
C1_DedupInvariant ==
    \A i, j \in 1..Len(results) :
        i # j => ~(/\ lower(results[i].title) = lower(results[j].title)
                   /\ Sub(results[i].start, 1, 10) = Sub(results[j].start, 1, 10))

\* C1 - a run returned after its latest date built an event with the title
\* (in lower case) and the day of an event already in results, at another
\* time of day; the event was discarded.
C1_RepeatAtOtherTimeDiscarded ==
    /\ pc = "done" /\ date_base.ok
    /\ \E c \in Range(LastCandidates), e \in Range(results) :
          /\ lower(c.title) = lower(e.title)
          /\ Sub(c.start, 1, 10) = Sub(e.start, 1, 10)
          /\ c.start # e.start

\* Python's order on the characters of an isoformat() string
IsoOrder == "-0123456789:T"
CharRank(c) == Min({k \in 1..Len(IsoOrder) : Ch(IsoOrder, k) = c})
\* a <= b for two strings of those characters
StrLeq(a, b) ==
    IF \A i \in 1..Min2(Len(a), Len(b)) : Ch(a, i) = Ch(b, i) THEN Len(a) <= Len(b)
    ELSE \E i \in 1..Min2(Len(a), Len(b)) :
            /\ \A k \in 1..(i - 1) : Ch(a, k) = Ch(b, k)
            /\ Ch(a, i) # Ch(b, i)
            /\ CharRank(Ch(a, i)) < CharRank(Ch(b, i))

\* C2 - Ordering: every event in results has start <= end, also when the
\* first time written in a range is later in the day than the second.
C2_StartNotAfterEnd ==
    \A n \in 1..Len(results) : StrLeq(results[n].start, results[n].end)

\* C3 - Title non-emptiness: every event in results has a non-empty title,
\* also when the text before the date is made of hyphens, colons, commas or
\* whitespace only.
C3_TitleNotEmpty ==
    \A n \in 1..Len(results) : results[n].title # ""

\* C4 - The extractor never raises: no run ends in an exception, also when a
\* valid date is followed by H:MM AM/PM with an hour or a minute that no
\* time of day has.
C4_NeverRaises == pc # "raised"

\* every DATE_RE match of a text, in the order finditer gives them
RECURSIVE AllDatesFrom(_, _)
AllDatesFrom(L, m) ==
    IF m.start = 0 THEN << >> ELSE << m >> \o AllDatesFrom(L, FindDate(L, m.stop))
AllDates(cl) == AllDatesFrom(lower(cl), FindDate(lower(cl), 1))
IsRealDate(cl, m) == parse_date(date_text_of(cl, m)).ok
\* the matches that are calendar dates
RECURSIVE RealDates(_, _, _)
RealDates(cl, ms, n) ==
    IF n > Len(ms) THEN << >>
    ELSE IF IsRealDate(cl, ms[n]) THEN << ms[n] >> \o RealDates(cl, ms, n + 1)
    ELSE RealDates(cl, ms, n + 1)
\* what the run gives when only the matches ms are taken for dates: the
\* events of each in turn, or the exception of the first that raises
RECURSIVE OutcomeOver(_, _, _, _)
OutcomeAfter(cl, ms, n, step) ==
    IF step.raised THEN [raised |-> TRUE, results |-> << >>]
    ELSE OutcomeOver(cl, ms, n + 1, step.acc)
OutcomeOver(cl, ms, n, acc) ==
    IF n > Len(ms) THEN [raised |-> FALSE, results |-> acc.results]
    ELSE OutcomeAfter(cl, ms, n, loop_body(cl, ms[n], acc))

\* C5 - Per-occurrence skip: a match of the date shape that is no calendar
\* date gives no event and no error, and every other match, before or after
\* it, gives the events it gives when the bad match is not taken for a date
\* at all: a finished run ends as the run over the real dates alone ends.
C5_SkipsOnlyTheBadDate ==
    pc \in {"done", "raised"} =>
        [raised |-> pc = "raised",
         results |-> IF pc = "raised" THEN << >> ELSE results]
        = OutcomeOver(cleaned, RealDates(cleaned, AllDates(cleaned), 1), 1,
                      [results |-> << >>, seen |-> {}])

\* C5 - a run returned events of a date before and of a date after a match
\* that is no calendar date.
C5_BadDateBetweenGoodOnes ==
    /\ pc = "done"
    /\ \E ms \in {AllDates(cleaned)} :
       \E i, j, k \in 1..Len(ms) :
          /\ i < j /\ j < k
          /\ IsRealDate(cleaned, ms[i]) /\ ~IsRealDate(cleaned, ms[j])
          /\ IsRealDate(cleaned, ms[k])
          /\ \E a, b \in 1..Len(results) :
                /\ a < b
                /\ Sub(results[a].start, 1, 10) = Sub(isoformat(parse_date(
                       date_text_of(cleaned, ms[i]))), 1, 10)
                /\ Sub(results[b].start, 1, 10) = Sub(isoformat(parse_date(
                       date_text_of(cleaned, ms[k]))), 1, 10)

\* the text after the match m that comes before the next date occurrence
\* nxt: the part of the trailing window that belongs to m's own date
OwnTextUpTo(cl, m, nxt) ==
    IF nxt.start > 0 /\ nxt.start - 1 < end_idx(cl, m)
    THEN Sub(cl, m.stop, nxt.start - 1)
    ELSE after_text_of(cl, m)
OwnText(cl, m) == OwnTextUpTo(cl, m, FindDate(lower(cl), m.stop))

\* C11 - Time attachment: the start, end and allDay given to a date
\* occurrence come from the text between it and the next date occurrence
\* only; a time written after a later date, also one within the 120
\* characters that follow the earlier date, is never used for the earlier
\* date, which is then all day with start = end = its midnight.
C11_TimesFromOwnTextOnly ==
    pc = "emit" => times = detect_times(date_base, OwnText(cleaned, date_match))

----------------------------------------------------------------------------
(* Properties of guess_event_type, under SpecClassify.                     *)

\* the stated classification of a title in lower case: the first of the
\* ordered checks with a keyword that is a whole word of the title
WholeWordType(L) ==
    IF HasWholeWord(L, "midterm") THEN "Midterm"
    ELSE IF \E w \in {"final", "exam", "test"} : HasWholeWord(L, w) THEN "Exam"
    ELSE IF HasWholeWord(L, "quiz") THEN "Quiz"
    ELSE IF HasWholeWord(L, "lab") THEN "Lab"
    ELSE IF \E w \in {"assignment", "hw", "homework"} : HasWholeWord(L, w)
         THEN "Assignment"
    ELSE IF \E w \in {"project", "presentation", "report"} : HasWholeWord(L, w)
         THEN "Project"
    ELSE "Other"

\* C6 - guess_event_type gives the type of the first check, in the order
\* midterm; final, exam, test; quiz; lab; assignment, hw, homework; project,
\* presentation, report, with a keyword that is a whole word of the title,
\* whatever its case, and Other when there is none: "projector",
\* "presentations" and "preport" alone are Other.
C6_WholeWordClassification ==
    cls_pc = "returned" => cls_type = WholeWordType(lower(cls_title))

----------------------------------------------------------------------------
(* Properties of the store, under SpecStore.                               *)

\* the ids GET /events lists, and the ids the export emits a component for
ListedIds == Range(IdsOf(heap, models_events))
ExportedIds ==
    IF Exportable(heap, routes_events) THEN Range(IdsOf(heap, routes_events)) ELSE {}

\* C7 - Removal by id: once a delete request for an id was answered with
\* success, no lookup by get_event_by_id finds an event with that id, no
\* GET /events response lists one, and the health count does not count one.
C7_DeletedStaysRemoved ==
    /\ \A id \in deleted_ids : get_event_by_id(heap, models_events, id) = 0
    /\ response.handler = "get_events" =>
          \A n \in 1..Len(response.ids) : response.ids[n] \notin deleted_ids
    /\ response.handler = "health_check" =>
          response.total <= (next_event_id - 1) - Cardinality(deleted_ids)

\* the dicts some list of events holds
Stored == Range(models_events) \cup Range(routes_events)
NoRepeats(evs) == \A i, j \in 1..Len(evs) : i # j => evs[i] # evs[j]
UniqueIds ==
    /\ NoRepeats(models_events) /\ NoRepeats(routes_events)
    /\ \A a, b \in Stored : a # b => heap[a].id # heap[b].id
\* a step gives every dict it creates an id above the ids of all dicts
\* created before it, and leaves the id of every other dict as it is
IdsStep ==
    /\ Len(heap') >= Len(heap)
    /\ \A o \in 1..Len(heap) : heap'[o].id = heap[o].id
    /\ \A n \in (Len(heap) + 1)..Len(heap') :
          \A o \in 1..(n - 1) : heap'[o].id < heap'[n].id

\* C8 - Id uniqueness and monotonicity: whatever upload, create, update and
\* delete requests were handled, one at a time, no two stored events carry
\* the same id, every new event gets an id above every id given before
\* (so the id of a deleted event is not given again), and an update leaves
\* the id of an event as it is.
C8_IdsUniqueAndIncreasing == [](UniqueIds) /\ [][IdsStep]_vars

\* C8 - a create request was answered 201 after a delete request had
\* succeeded, with uploaded events in the store and an update that carried
\* an 'id' key applied.
C8_CreateAfterDeleteAndUpdate ==
    /\ response.handler = "create_event" /\ response.status = 201
    /\ deleted_ids # {}
    /\ \A id \in deleted_ids : response.ids[1] > id
    /\ \E o \in 1..Len(heap) : heap[o].source = "pdf_upload"
    /\ \E o \in 1..Len(heap) : heap[o].title = "Renamed"

\* no stored event carries id: it was never given, or a delete request for
\* it succeeded
Absent(id) == id >= next_event_id \/ id \in deleted_ids
\* C9 - Not-found on update and delete: an update or delete request for an
\* id that no stored event carries, never given or deleted by an earlier
\* successful delete, is answered not-found and changes no field of any
\* event; an update after a successful delete of its id does not succeed.
C9_AbsentIdIsNotFound ==
    [][(/\ response'.handler \in {"update_event", "delete_event"}
        /\ Absent(response'.target))
       => (response'.status = 404 /\ heap' = heap)]_vars

\* C10 - Export covers exactly the store: in every state the requests can
\* reach, the export emits a component for each event GET /events lists and
\* for no other; the ids exported are the ids listed.
C10_ExportedAreListed == ExportedIds = ListedIds


\* the ids of the events a create or upload request answered with success
\* has made: every dict of heap is one
CreatedIds == {heap[o].id : o \in 1..Len(heap)}

\* C13 - Created events stay visible: after any sequence of requests, every
\* event that a create or upload request made, and whose id no successful
\* delete has had for target, is listed by GET /events and is found by an
\* update request for its id; so are the events created after a delete
\* request, successful or answered not-found, was handled.
C13_CreatedStayVisible ==
    \A id \in CreatedIds \ deleted_ids :
        /\ id \in ListedIds
        /\ get_event_by_id(heap, models_events, id) # 0

----------------------------------------------------------------------------
(* Properties of two creating requests served at once, under SpecThreads.  *)

\* the ids the request of thread t has given to its events so far
Stamped(t) == Range(threads[t].ids)
AllServed == \A t \in Threads : threads[t].pc = "done"

\* C12 - Atomic id assignment: when two creating requests, manual create or
\* PDF upload in any combination, are served by threads whose reads of the
\* counter, appends to the list and increments interleave in any order,
\* the two requests never give the same id to an event, and once both are
\* served the counter has advanced by one for every event created.
C12_IdsAssignedAtomically ==
    /\ \A t, u \in Threads : t # u => Stamped(t) \cap Stamped(u) = {}
    /\ AllServed => next_event_id = 1 + Len(heap)
====
